---------------------------- MODULE Spec2Model ----------------------------
(***************************************************************************)
(* backup.js: incremental one-way backup of a source tree onto a           *)
(* destination volume.  The repository holds two revisions of the script   *)
(* that matter here: src/backup.js and the later src/unnamed/part_003      *)
(* (lines 228-1094).  They share initDisk, eraseIfNotEmpty, eraseDisk,     *)
(* markDisk, getFileTree, getChildren, getPendingFilesFromLists,           *)
(* compareFilesByDate and performBackup verbatim; they differ in           *)
(* filterListByMinDate, buildPendingBackupList and the main script, and    *)
(* only part_003 has filterByRegex.  The variable rev names the revision   *)
(* that runs.                                                              *)
(*                                                                         *)
(* Times are milliseconds since the epoch (a JavaScript Date).  Strings    *)
(* are TLA+ strings; paths are strings with "/" separators.                *)
(***************************************************************************)
EXTENDS Integers, Sequences, FiniteSets, TLC

VARIABLES
    rev,              \* which revision of the script runs
    config,           \* the loaded configuration, plus argv['force-erase']
    fs,               \* the file system: path -> node
    fs0,              \* the file system when the run started (history)
    sourceList,       \* flattened scan of the source
    destinationList,  \* flattened scan of the destination
    fileList,         \* the list under construction / being applied
    prevList,         \* the argument of the last list function applied (history)
    pc,               \* position of the script
    fileNr,           \* performBackup: index of the entry being processed
    stats,            \* performBackup: statSync result of the current entry
    overwriteCount,   \* performBackup: overwrites counted so far
    report,           \* the summaries performBackup logged, one for each application
    ops,              \* the calls and throws so far, in order (history)
    snapshots         \* the file system after each application of performBackup (history)

vars == <<rev, config, fs, fs0, sourceList, destinationList, fileList, prevList,
          pc, fileNr, stats, overwriteCount, report, ops, snapshots>>

-----------------------------------------------------------------------------
(* Bounds of the model *)

\* longest source list drawn for the list functions
MaxFiles == 2

-----------------------------------------------------------------------------
(* JavaScript values *)

Revs == {"backup.js", "part_003"}

\* the value of a property that was never set
Undefined == "<undefined>"

\* a Number: NaN or a finite value
NaN == [nan |-> TRUE, val |-> 0]

Num(n) == [nan |-> FALSE, val |-> n]

isNaN(x) == x.nan

\* a >= b, a > b, a === b and a < b on Numbers: every comparison with NaN is false
NumGe(a, b) == ~a.nan /\ ~b.nan /\ a.val >= b.val

NumGt(a, b) == ~a.nan /\ ~b.nan /\ a.val > b.val

NumEq(a, b) == ~a.nan /\ ~b.nan /\ a.val = b.val

NumLt(a, b) == ~a.nan /\ ~b.nan /\ a.val < b.val

\* A plausible change: the Date is parsed to its exact time value.
DateParseDate_exact(ms) == Num(ms)

\* Date.parse of a Date object: the Date is converted to its string form, which
\* carries whole seconds only, and that string is parsed back
DateParseDate(ms) == Num((ms \div 1000) * 1000)

\* the date strings a configuration may hold, with the instant each parses to
DateStrings == [s \in {"1970-01-01T00:00:01.000Z", "1970-01-01T00:00:01.500Z",
                       "1970-01-01T00:00:02.000Z"} |->
                   CASE s = "1970-01-01T00:00:01.000Z" -> 1000
                     [] s = "1970-01-01T00:00:01.500Z" -> 1500
                     [] OTHER -> 2000]

\* Date.parse of a configuration value: undefined, blank and unparsable give NaN
DateParseString(s) == IF s \in DOMAIN DateStrings THEN Num(DateStrings[s]) ELSE NaN

\* values config.backupDate may hold
BackupDates == {Undefined, "", "not a date"} \cup DOMAIN DateStrings

-----------------------------------------------------------------------------
(* Regular expressions.  A compiled expression is a literal that must occur   *)
(* in the subject, optionally anchored at its end; that covers the patterns   *)
(* below.  An empty literal occurs in every subject.                          *)

SyntaxError == [lit |-> "(", atEnd |-> FALSE, ok |-> FALSE]

\* new RegExp(pattern, 'g'): an undefined pattern compiles like the empty one,
\* to (?:); an unbalanced parenthesis throws a SyntaxError
RegExp(pattern) ==
    CASE pattern = Undefined -> [lit |-> "", atEnd |-> FALSE, ok |-> TRUE]
      [] pattern = ""        -> [lit |-> "", atEnd |-> FALSE, ok |-> TRUE]
      [] pattern = "\\.tmp$" -> [lit |-> ".tmp", atEnd |-> TRUE, ok |-> TRUE]
      [] pattern = "a"       -> [lit |-> "a", atEnd |-> FALSE, ok |-> TRUE]
      [] pattern = "d"       -> [lit |-> "d", atEnd |-> FALSE, ok |-> TRUE]
      [] OTHER               -> SyntaxError

\* values config.exclude may hold
Excludes == {Undefined, "", "\\.tmp$", "a", "d", "("}

\* str.match(filter) === null: the expression occurs nowhere in str
matchIsNull(str, filter) ==
    ~ \E i \in 1..(Len(str) + 1) :
          /\ i + Len(filter.lit) - 1 <= Len(str)
          /\ SubSeq(str, i, i + Len(filter.lit) - 1) = filter.lit
          /\ filter.atEnd => i + Len(filter.lit) - 1 = Len(str)

-----------------------------------------------------------------------------
(* Paths and file records *)

backupReasons == [DEST_FILE_NOT_FOUND |-> "Destination file not found",
                  SRC_FILE_NEWER |-> "Source file is newer than destination file"]

\* the reason property of a record the diff has not selected
NoReason == Undefined

DISK_SIGNATURE_FILE == "backupjs.signature"

\* config.backupSource and config.backupDestination
SourceRoot == "src"

DestinationRoot == "disk"

\* index of the last "/" of a path, 0 when it has none
LastSlash(filename) ==
    LET slashes == {i \in 1..Len(filename) : SubSeq(filename, i, i) = "/"}
    IN  IF slashes = {} THEN 0 ELSE CHOOSE i \in slashes : \A j \in slashes : j <= i

\* path.basename
basename(filename) == SubSeq(filename, LastSlash(filename) + 1, Len(filename))

\* the info record getFileTree builds for a non-directory
fileInfo(filename, root, mtime) ==
    [path         |-> filename,
     relativePath |-> SubSeq(filename, Len(root) + 2, Len(filename)),
     name         |-> basename(filename),
     lastModified |-> mtime,
     type         |-> "file",
     reason       |-> NoReason]

-----------------------------------------------------------------------------
(* Diff engine *)

\* A plausible slip: entries are matched by base name instead of relative path.
findFileInList_byName(file, list) ==
    LET hits == {i \in 1..Len(list) : list[i].name = file.name}
    IN  IF hits = {} THEN 0 ELSE CHOOSE i \in hits : \A j \in hits : i <= j

\* index of the first entry of list with file's relativePath; 0 stands for the
\* undefined the function returns when there is none
findFileInList(file, list) ==
    LET hits == {i \in 1..Len(list) : list[i].relativePath = file.relativePath}
    IN  IF hits = {} THEN 0 ELSE CHOOSE i \in hits : \A j \in hits : i <= j

\* A plausible slip: >= for >, so equal times count as newer.
compareFilesByDate_geq(fileA, fileB) ==
    LET dateA == DateParseDate(fileA.lastModified)
        dateB == DateParseDate(fileB.lastModified)
    IN  CASE NumGe(dateA, dateB) -> 1
          [] NumLt(dateA, dateB) -> -1

compareFilesByDate(fileA, fileB) ==
    LET dateA == DateParseDate(fileA.lastModified)
        dateB == DateParseDate(fileB.lastModified)
    IN  CASE NumGt(dateA, dateB) -> 1
          [] NumEq(dateA, dateB) -> 0
          [] NumLt(dateA, dateB) -> -1

RECURSIVE pendingFrom(_, _, _)
\* the loop of getPendingFilesFromLists from index fileNr0 on
pendingFrom(srcList, dstList, fileNr0) ==
    IF fileNr0 > Len(srcList) THEN <<>>
    ELSE LET sourceFile == srcList[fileNr0]
             clone == findFileInList(sourceFile, dstList)
             rest == pendingFrom(srcList, dstList, fileNr0 + 1)
         IN  IF clone = 0
             THEN <<[sourceFile EXCEPT !.reason = backupReasons.DEST_FILE_NOT_FOUND]>> \o rest
             ELSE IF compareFilesByDate(sourceFile, dstList[clone]) = 1
                  THEN <<[sourceFile EXCEPT !.reason = backupReasons.SRC_FILE_NEWER]>> \o rest
                  ELSE rest

\* A plausible slip: entries are put at the front of the result (unshift for push).
getPendingFilesFromLists_unshift(srcList, dstList) ==
    LET pending == pendingFrom(srcList, dstList, 1)
    IN  [i \in 1..Len(pending) |-> pending[Len(pending) + 1 - i]]

getPendingFilesFromLists(srcList, dstList) == pendingFrom(srcList, dstList, 1)

-----------------------------------------------------------------------------
(* Filter pipeline *)

\* src/backup.js: no test of the parsed threshold
filterListByMinDate_backupjs(list, minDate) ==
    LET keep(file) == NumGe(DateParseDate(file.lastModified), DateParseString(minDate))
    IN  SelectSeq(list, keep)

\* part_003: an unparsable threshold returns the list
filterListByMinDate_part003(list, minDate) ==
    LET minDateParsed == DateParseString(minDate)
        keep(file) == NumGe(DateParseDate(file.lastModified), minDateParsed)
    IN  IF isNaN(minDateParsed) THEN list ELSE SelectSeq(list, keep)

\* filterListByMinDate of the revision that runs
filterListByMinDate(list, minDate) ==
    IF rev = "backup.js" THEN filterListByMinDate_backupjs(list, minDate)
                         ELSE filterListByMinDate_part003(list, minDate)

\* A plausible slip: the expression is matched against the relative path.
filterByRegex_onRelativePath(list, regex) ==
    LET filter == RegExp(regex)
        keep(file) == matchIsNull(file.relativePath, filter)
    IN  SelectSeq(list, keep)

\* A plausible slip: the loop starts at the second entry.
filterByRegex_skipFirst(list, regex) ==
    LET filter == RegExp(regex)
        keep(file) == matchIsNull(file.name, filter)
    IN  IF list = <<>> THEN <<>> ELSE SelectSeq(Tail(list), keep)

\* filterByRegex (part_003 only); RegExp(regex) is known to have compiled
filterByRegex(list, regex) ==
    LET filter == RegExp(regex)
        keep(file) == matchIsNull(file.name, filter)
    IN  SelectSeq(list, keep)

-----------------------------------------------------------------------------
(* The file system *)

NoNode == [type |-> "none", content |-> "", mtime |-> 0, atime |-> 0]

Folder == [type |-> "folder", content |-> "", mtime |-> 0, atime |-> 0]

File(content, mtime, atime) ==
    [type |-> "file", content |-> content, mtime |-> mtime, atime |-> atime]

\* relative paths of the files a tree may hold, in directory-listing order
RelPaths == <<"a.txt", "d/a.txt", "d/c.tmp">>

\* modification times a file may carry: two within one second, one in the next
MTimes == {1000, 1500, 2000}

SignaturePath == DestinationRoot \o "/" \o DISK_SIGNATURE_FILE

\* every path of the model, in directory-listing order
PathOrder ==
    <<SourceRoot, SourceRoot \o "/a.txt", SourceRoot \o "/d",
      SourceRoot \o "/d/a.txt", SourceRoot \o "/d/c.tmp",
      DestinationRoot, DestinationRoot \o "/a.txt", SignaturePath,
      DestinationRoot \o "/d", DestinationRoot \o "/d/a.txt",
      DestinationRoot \o "/d/c.tmp">>

AllPaths == {PathOrder[i] : i \in 1..Len(PathOrder)}

\* a file system that holds the two roots and nothing else
EmptyFs == [p \in AllPaths |-> IF p \in {SourceRoot, DestinationRoot} THEN Folder ELSE NoNode]

-----------------------------------------------------------------------------
(* Inputs of the list functions *)

\* the sequences over S of length at most n without repetition
RECURSIVE SeqsNoRep(_, _)
SeqsNoRep(S, n) ==
    IF n = 0 THEN {<<>>}
    ELSE LET shorter == SeqsNoRep(S, n - 1)
         IN  shorter \cup {Append(q, x) : q \in shorter, x \in S}

RelPathSet == {RelPaths[i] : i \in 1..Len(RelPaths)}

\* a scan result for root: records of distinct relative paths, as getFileTree
\* builds them, of at most n files
ScanLists(root, n) ==
    {q \in SeqsNoRep({fileInfo(root \o "/" \o r, root, t) : r \in RelPathSet, t \in MTimes}, n) :
        \A i, j \in 1..Len(q) : i # j => q[i].relativePath # q[j].relativePath}

\* a destination scan in listing order: each relative path absent or present
DestinationLists ==
    {SelectSeq([i \in 1..Len(RelPaths) |-> fileInfo(DestinationRoot \o "/" \o RelPaths[i], DestinationRoot, m[i])],
               LAMBDA f : f.lastModified # 0) :
        m \in [1..Len(RelPaths) -> MTimes \cup {0}]}

\* a pending list: a source scan whose entries carry a reason each
PendingLists(n) ==
    UNION {{[i \in 1..Len(q) |-> [q[i] EXCEPT !.reason = rs[i]]] :
               rs \in [1..Len(q) -> {backupReasons.DEST_FILE_NOT_FOUND, backupReasons.SRC_FILE_NEWER}]} :
           q \in ScanLists(SourceRoot, n)}

\* the configuration: backupSource and backupDestination are fixed
Config(backupDate, exclude, testMode, forceErase) ==
    [backupSource |-> SourceRoot, backupDestination |-> DestinationRoot,
     backupDate |-> backupDate, exclude |-> exclude,
     testMode |-> testMode, forceErase |-> forceErase]

DefaultConfig == Config(Undefined, Undefined, FALSE, FALSE)

\* the variables of performBackup and of the volume, at rest
TransferIdle ==
    /\ fileNr = 0
    /\ stats = NoNode
    /\ overwriteCount = 0
    /\ report = <<>>
    /\ snapshots = <<>>

-----------------------------------------------------------------------------
(* Specification SpecDiff: getPendingFilesFromLists on drawn scan results *)

InitDiff ==
    /\ rev \in Revs
    /\ config = DefaultConfig
    /\ fs = EmptyFs
    /\ fs0 = fs
    /\ sourceList \in ScanLists(SourceRoot, MaxFiles)
    /\ destinationList \in DestinationLists
    /\ fileList = <<>>
    /\ prevList = <<>>
    /\ pc = "diff"
    /\ ops = <<>>
    /\ TransferIdle

\* var pendingFilesList = getPendingFilesFromLists(sourceFileList, destinationFileList)
ComputePending ==
    /\ pc = "diff"
    /\ fileList' = getPendingFilesFromLists(sourceList, destinationList)
    /\ prevList' = sourceList
    /\ pc' = "diffed"
    /\ ops' = Append(ops, "getPendingFilesFromLists")
    /\ UNCHANGED <<rev, config, fs, fs0, sourceList, destinationList,
                   fileNr, stats, overwriteCount, report, snapshots>>

NextDiff == ComputePending

SpecDiff == InitDiff /\ [][NextDiff]_vars

\* the relative paths of a list's entries
RelPathsOf(list) == {list[i].relativePath : i \in 1..Len(list)}

\* the entry of list with relative path r
EntryOf(list, r) == list[CHOOSE i \in 1..Len(list) : list[i].relativePath = r]

\* C1: after getPendingFilesFromLists, every source entry whose relativePath
\* equals no destination entry's relativePath is in the result, with reason
\* 'Destination file not found'.
C1_NotFoundAtDestinationIsPending ==
    pc = "diffed" =>
        \A i \in 1..Len(sourceList) :
            sourceList[i].relativePath \notin RelPathsOf(destinationList)
            => \E k \in 1..Len(fileList) :
                   fileList[k] = [sourceList[i] EXCEPT !.reason = backupReasons.DEST_FILE_NOT_FOUND]

\* C1 witness: the diff ran on a source entry that is absent from a destination
\* which holds another file of the same base name.
C1_Witness ==
    /\ pc = "diffed"
    /\ \E i \in 1..Len(sourceList) :
           /\ sourceList[i].relativePath \notin RelPathsOf(destinationList)
           /\ \E j \in 1..Len(destinationList) : destinationList[j].name = sourceList[i].name

\* C2: a source entry with a destination entry of the same relativePath is in
\* the pending list, and then with reason 'Source file is newer than
\* destination file', if and only if the source lastModified is strictly later
\* than the destination's.
C2_PendingIffStrictlyNewer ==
    pc = "diffed" =>
        \A i \in 1..Len(sourceList) :
            sourceList[i].relativePath \in RelPathsOf(destinationList)
            => LET s == sourceList[i]
                   d == EntryOf(destinationList, s.relativePath)
               IN  /\ s.relativePath \in RelPathsOf(fileList) <=> s.lastModified > d.lastModified
                   /\ s.relativePath \in RelPathsOf(fileList)
                      => EntryOf(fileList, s.relativePath).reason = backupReasons.SRC_FILE_NEWER

-----------------------------------------------------------------------------
(* Specification SpecFilter: the two filters on drawn pending lists *)

\* how many filter applications a behaviour of SpecFilter makes at most
MaxApplications == 2

InitFilter ==
    /\ rev \in Revs
    /\ \E backupDate \in BackupDates, exclude \in Excludes :
           config = Config(backupDate, exclude, FALSE, FALSE)
    /\ fs = EmptyFs
    /\ fs0 = fs
    /\ sourceList = <<>>
    /\ destinationList = <<>>
    /\ fileList \in PendingLists(MaxFiles)
    /\ prevList = <<>>
    /\ pc = "filter"
    /\ ops = <<>>
    /\ TransferIdle

\* pendingFilesList = filterListByMinDate(pendingFilesList, config.backupDate)
ApplyFilterListByMinDate ==
    /\ pc \in {"filter", "filtered"}
    /\ Len(ops) < MaxApplications
    /\ fileList' = filterListByMinDate(fileList, config.backupDate)
    /\ prevList' = fileList
    /\ pc' = "filtered"
    /\ ops' = Append(ops, "filterListByMinDate")
    /\ UNCHANGED <<rev, config, fs, fs0, sourceList, destinationList,
                   fileNr, stats, overwriteCount, report, snapshots>>

\* pendingFilesList = filterByRegex(pendingFilesList, config.exclude); new RegExp
\* throws on a pattern that does not compile
ApplyFilterByRegex ==
    /\ rev = "part_003"
    /\ pc \in {"filter", "filtered"}
    /\ Len(ops) < MaxApplications
    /\ IF RegExp(config.exclude).ok
       THEN /\ fileList' = filterByRegex(fileList, config.exclude)
            /\ prevList' = fileList
            /\ pc' = "filtered"
       ELSE /\ pc' = "error"
            /\ UNCHANGED <<fileList, prevList>>
    /\ ops' = Append(ops, "filterByRegex")
    /\ UNCHANGED <<rev, config, fs, fs0, sourceList, destinationList,
                   fileNr, stats, overwriteCount, report, snapshots>>

NextFilter == ApplyFilterListByMinDate \/ ApplyFilterByRegex

SpecFilter == InitFilter /\ [][NextFilter]_vars

\* the function applied last
LastOp == IF ops = <<>> THEN "" ELSE ops[Len(ops)]

\* C3: filterListByMinDate returns its input list unchanged whenever
\* config.backupDate is unset, blank or not parsable as a date.
C3_DateFilterNoThresholdIsNoOp ==
    (pc = "filtered" /\ LastOp = "filterListByMinDate"
        /\ config.backupDate \in {Undefined, "", "not a date"})
    => fileList = prevList

\* C4: filterByRegex returns its input list unchanged whenever config.exclude
\* is unset or was left blank.
C4_RegexFilterNoPatternIsNoOp ==
    (pc = "filtered" /\ LastOp = "filterByRegex" /\ config.exclude \in {Undefined, ""})
    => fileList = prevList

\* C12: with a threshold that parses as a date, filterListByMinDate keeps exactly
\* the entries whose lastModified is at or after the threshold and drops exactly
\* those modified before it, in the order they had.
C12_DateFilterInclusiveLowerBound ==
    (pc = "filtered" /\ LastOp = "filterListByMinDate" /\ config.backupDate \in DOMAIN DateStrings)
    => fileList = SelectSeq(prevList, LAMBDA file : file.lastModified >= DateStrings[config.backupDate])

\* the base names the model's files carry that each set pattern matches
NamesMatching ==
    [pattern \in {"\\.tmp$", "a", "d"} |->
        CASE pattern = "\\.tmp$" -> {"c.tmp"}
          [] pattern = "a"       -> {"a.txt"}
          [] OTHER               -> {}]

\* C13: with a pattern set, filterByRegex drops every entry whose base name the
\* pattern matches and keeps every other entry, in order; an entry whose relative
\* path matches while its base name does not is kept.
C13_RegexFilterExcludesByName ==
    (pc = "filtered" /\ LastOp = "filterByRegex" /\ config.exclude \in DOMAIN NamesMatching)
    => fileList = SelectSeq(prevList, LAMBDA file : file.name \notin NamesMatching[config.exclude])

\* C13 witness: the filter ran with pattern d on a list that holds d/c.tmp, and
\* with \.tmp$ on a list that holds a .tmp file and another file.
C13_Witness ==
    /\ pc = "filtered"
    /\ LastOp = "filterByRegex"
    /\ \/ /\ config.exclude = "d"
          /\ "d/c.tmp" \in RelPathsOf(prevList)
          /\ "d/c.tmp" \in RelPathsOf(fileList)
       \/ /\ config.exclude = "\\.tmp$"
          /\ "d/c.tmp" \in RelPathsOf(prevList)
          /\ Len(fileList) = 1
          /\ Len(prevList) = 2

\* C14: filterByRegex applied to its own result with the same pattern returns
\* that result: the second of two applications in a row changes nothing.
C14_RegexFilterIsIdempotent ==
    (/\ pc = "filtered"
     /\ Len(ops) >= 2
     /\ ops[Len(ops)] = "filterByRegex"
     /\ ops[Len(ops) - 1] = "filterByRegex")
    => fileList = prevList

\* C14 witness: two applications in a row with a set pattern that left entries.
C14_Witness ==
    /\ pc = "filtered"
    /\ ops = <<"filterByRegex", "filterByRegex">>
    /\ config.exclude = "\\.tmp$"
    /\ fileList # <<>>

-----------------------------------------------------------------------------
(* File system operations *)

\* the clock of the run: later than every time a file carries when the run starts
Now == 3000

\* p lies under directory dir, at any depth
Under(p, dir) ==
    /\ Len(p) > Len(dir) + 1
    /\ SubSeq(p, 1, Len(dir) + 1) = dir \o "/"

\* p is an entry of directory dir itself
ChildOf(p, dir) ==
    /\ Under(p, dir)
    /\ \A i \in (Len(dir) + 2)..Len(p) : SubSeq(p, i, i) # "/"

\* the directory that holds p
Dirname(p) == SubSeq(p, 1, LastSlash(p) - 1)

\* fs.existsSync
existsSync(f, p) == f[p].type # "none"

\* fs.readdirSync: the paths of dir's entries, in listing order
readdirSync(f, dir) == SelectSeq(PathOrder, LAMBDA p : ChildOf(p, dir) /\ existsSync(f, p))

\* extfs.isEmptySync of a directory: it lists no entry
isEmptySync(f, dir) == readdirSync(f, dir) = <<>>

\* the regular files under dir at any depth, in the order cleanDir and
\* getFileTree walk them
FilesUnder(f, dir) == SelectSeq(PathOrder, LAMBDA p : Under(p, dir) /\ f[p].type = "file")

\* fs-extra mkdirs: dir and the folders above it exist afterwards
RECURSIVE mkdirs(_, _)
mkdirs(f, dir) ==
    IF dir \notin AllPaths \/ existsSync(f, dir) THEN f
    ELSE [mkdirs(f, Dirname(dir)) EXCEPT ![dir] = Folder]

-----------------------------------------------------------------------------
(* Volume lifecycle *)

\* A plausible slip: the separator is left out, so the marker is never found.
diskIsValid_noSeparator(f, disk) ==
    (disk \o DISK_SIGNATURE_FILE) \in AllPaths /\ existsSync(f, disk \o DISK_SIGNATURE_FILE)

diskIsValid(f, disk) == existsSync(f, disk \o "/" \o DISK_SIGNATURE_FILE)

RECURSIVE cleanEntries(_, _, _)
\* the loop of cleanDir over the listing files from index i on: a regular file is
\* unlinked, anything else is cleaned in turn.  st.f is the file system,
\* st.budget the number of unlinkSync calls that succeed before one throws, and
\* st.threw says that one threw, which ends every loop
cleanEntries(st, files, i) ==
    IF i > Len(files) \/ st.threw THEN st
    ELSE LET filePath == files[i]
         IN  IF st.f[filePath].type = "file"
             THEN IF st.budget = 0
                  THEN [st EXCEPT !.threw = TRUE]
                  ELSE cleanEntries([f |-> [st.f EXCEPT ![filePath] = NoNode],
                                     budget |-> st.budget - 1, threw |-> FALSE],
                                    files, i + 1)
             ELSE cleanEntries(cleanEntries(st, readdirSync(st.f, filePath), 1), files, i + 1)

\* A plausible slip: folders are not descended into.
cleanDir_shallow(f, dirPath) ==
    [p \in AllPaths |-> IF ChildOf(p, dirPath) /\ f[p].type = "file" THEN NoNode ELSE f[p]]

\* cleanDir when no unlinkSync throws: the regular files under dirPath are gone,
\* at every depth, and the folders stay
cleanDir(f, dirPath) ==
    cleanEntries([f |-> f, budget |-> Len(PathOrder), threw |-> FALSE],
                 readdirSync(f, dirPath), 1).f

\* cleanDir stopped by unlinkSync throwing at the failAt-th file it reaches: the
\* files before it are gone, that one and the later ones remain
cleanDirFailing(f, dirPath, failAt) ==
    cleanEntries([f |-> f, budget |-> failAt - 1, threw |-> FALSE],
                 readdirSync(f, dirPath), 1).f

\* the marker markDisk writes
SignatureFile == File("backup.js - disk cleared on <Date()>", Now, Now)

\* markDisk, when writeFileSync succeeds
markDisk(f, diskRoot) ==
    [f EXCEPT ![diskRoot \o "/" \o DISK_SIGNATURE_FILE] = SignatureFile]

-----------------------------------------------------------------------------
(* Trees the run may start from *)

\* what a relative path may hold in a drawn tree: nothing, or one of versions
NodeChoices(versions) == [1..Len(RelPaths) -> {NoNode} \cup versions]

\* the file system with srcNodes[i] at src/RelPaths[i] and dstNodes[i] at
\* disk/RelPaths[i]; folder d exists where it holds a file or where the flag asks
\* for an empty one; sig is the node at the signature path
FsOf(srcNodes, srcD, dstNodes, dstD, sig) ==
    LET at(root, nodes, p) ==
            IF \E i \in 1..Len(RelPaths) : p = root \o "/" \o RelPaths[i]
            THEN nodes[CHOOSE i \in 1..Len(RelPaths) : p = root \o "/" \o RelPaths[i]]
            ELSE IF p = root \o "/d"
                 THEN IF \/ (dstD /\ root = DestinationRoot)
                         \/ (srcD /\ root = SourceRoot)
                         \/ \E i \in 1..Len(RelPaths) :
                                Under(root \o "/" \o RelPaths[i], p) /\ nodes[i] # NoNode
                      THEN Folder ELSE NoNode
                 ELSE NoNode
    IN  [p \in AllPaths |->
            CASE p \in {SourceRoot, DestinationRoot} -> Folder
              [] p = SignaturePath -> sig
              [] Under(p, SourceRoot) -> at(SourceRoot, srcNodes, p)
              [] OTHER -> at(DestinationRoot, dstNodes, p)]

NoFiles == [i \in 1..Len(RelPaths) |-> NoNode]

\* a marker left by an earlier run
OldSignature == File("backup.js - disk cleared on <earlier>", 500, 500)

-----------------------------------------------------------------------------
(* Specification SpecDisk: initDisk on drawn volumes *)

InitDiskStart ==
    /\ rev \in Revs
    /\ \E forceErase \in BOOLEAN : config = Config(Undefined, Undefined, FALSE, forceErase)
    /\ \E dstNodes \in NodeChoices({File("old", t, t) : t \in MTimes}),
          dstD \in BOOLEAN, sig \in {NoNode, OldSignature} :
           fs = FsOf(NoFiles, FALSE, dstNodes, dstD, sig)
    /\ fs0 = fs
    /\ sourceList = <<>>
    /\ destinationList = <<>>
    /\ fileList = <<>>
    /\ prevList = <<>>
    /\ pc = "initDisk"
    /\ ops = <<>>
    /\ TransferIdle

\* the variables initDisk leaves alone
DiskFrame == UNCHANGED <<rev, config, fs0, sourceList, destinationList, fileList,
                         prevList, fileNr, stats, overwriteCount, report, snapshots>>

\* initDisk's executor on a volume that carries the marker: resolve()
InitDiskValid ==
    /\ pc = "initDisk"
    /\ diskIsValid(fs, config.backupDestination)
    /\ pc' = "initDiskResolved"
    /\ ops' = Append(ops, "resolve")
    /\ fs' = fs
    /\ DiskFrame

\* A plausible slip: the marker is written before the erase, which removes it.
InitDiskForceErase_markFirst ==
    /\ pc = "initDisk"
    /\ ~diskIsValid(fs, config.backupDestination)
    /\ config.forceErase
    /\ fs' = cleanDir(markDisk(fs, config.backupDestination), config.backupDestination)
    /\ ops' = ops \o <<"eraseDisk", "markDisk", "resolve">>
    /\ pc' = "initDiskResolved"
    /\ DiskFrame

\* initDisk's executor with argv['force-erase']: eraseDisk, markDisk, resolve(); a
\* throw of either rejects the promise
InitDiskForceErase ==
    /\ pc = "initDisk"
    /\ ~diskIsValid(fs, config.backupDestination)
    /\ config.forceErase
    /\ \E failAt \in 0..Len(FilesUnder(fs, config.backupDestination)), markThrows \in BOOLEAN :
           IF failAt > 0
           THEN /\ fs' = cleanDirFailing(fs, config.backupDestination, failAt)
                /\ ops' = ops \o <<"eraseDisk", "throw">>
                /\ pc' = "initDiskRejected"
           ELSE IF markThrows
                THEN /\ fs' = cleanDir(fs, config.backupDestination)
                     /\ ops' = ops \o <<"eraseDisk", "markDisk", "throw">>
                     /\ pc' = "initDiskRejected"
                ELSE /\ fs' = markDisk(cleanDir(fs, config.backupDestination),
                                       config.backupDestination)
                     /\ ops' = ops \o <<"eraseDisk", "markDisk", "resolve">>
                     /\ pc' = "initDiskResolved"
    /\ DiskFrame

\* A plausible slip: the confirmation is asked for on an empty volume too.
InitDiskEraseIfNotEmpty_alwaysAsks ==
    /\ pc = "initDisk"
    /\ ~diskIsValid(fs, config.backupDestination)
    /\ ~config.forceErase
    /\ pc' = "promptForConfirm"
    /\ ops' = Append(ops, "promptForConfirm")
    /\ fs' = fs
    /\ DiskFrame

\* initDisk's executor otherwise calls eraseIfNotEmpty, whose executor resolves at
\* once on an empty volume and asks for a confirmation on any other
InitDiskEraseIfNotEmpty ==
    /\ pc = "initDisk"
    /\ ~diskIsValid(fs, config.backupDestination)
    /\ ~config.forceErase
    /\ IF isEmptySync(fs, config.backupDestination)
       THEN /\ pc' = "eraseIfNotEmptyResolved"
            /\ ops' = ops
       ELSE /\ pc' = "promptForConfirm"
            /\ ops' = Append(ops, "promptForConfirm")
    /\ fs' = fs
    /\ DiskFrame

\* A plausible slip: the erase does not depend on the answer.
ConfirmAnswered_ignoresAnswer ==
    /\ pc = "promptForConfirm"
    /\ \E confirmed \in BOOLEAN :
           /\ fs' = cleanDir(fs, config.backupDestination)
           /\ ops' = ops \o <<IF confirmed THEN "confirmed" ELSE "declined", "eraseDisk">>
           /\ pc' = "eraseIfNotEmptyResolved"
    /\ DiskFrame

\* the then-callback of promptForConfirm in eraseIfNotEmpty: eraseDisk on 'yes',
\* then resolve(); a throw of eraseDisk goes to the catch, which logs it, and
\* resolve() is not reached
ConfirmAnswered ==
    /\ pc = "promptForConfirm"
    /\ \E confirmed \in BOOLEAN, failAt \in 0..Len(FilesUnder(fs, config.backupDestination)) :
           IF confirmed
           THEN IF failAt > 0
                THEN /\ fs' = cleanDirFailing(fs, config.backupDestination, failAt)
                     /\ ops' = ops \o <<"confirmed", "eraseDisk", "throw">>
                     /\ pc' = "stalled"
                ELSE /\ fs' = cleanDir(fs, config.backupDestination)
                     /\ ops' = ops \o <<"confirmed", "eraseDisk">>
                     /\ pc' = "eraseIfNotEmptyResolved"
           ELSE /\ failAt = 0
                /\ ops' = Append(ops, "declined")
                /\ fs' = fs
                /\ pc' = "eraseIfNotEmptyResolved"
    /\ DiskFrame

\* promptForConfirm rejects (the prompt is cancelled): the catch logs the error
\* and eraseIfNotEmpty's promise is never settled
ConfirmRejected ==
    /\ pc = "promptForConfirm"
    /\ pc' = "stalled"
    /\ ops' = Append(ops, "promptRejected")
    /\ fs' = fs
    /\ DiskFrame

\* A plausible slip: a volume the user declined to erase is not marked.
InitDiskMark_notAfterDecline ==
    /\ pc = "eraseIfNotEmptyResolved"
    /\ IF "declined" \in {ops[i] : i \in 1..Len(ops)}
       THEN /\ fs' = fs
            /\ ops' = Append(ops, "resolve")
       ELSE /\ fs' = markDisk(fs, config.backupDestination)
            /\ ops' = ops \o <<"markDisk", "resolve">>
    /\ pc' = "initDiskResolved"
    /\ DiskFrame

\* the then-callback of eraseIfNotEmpty in initDisk: markDisk, then resolve(); a
\* throw of markDisk rejects a promise nobody holds, and initDisk's is never settled
InitDiskMark ==
    /\ pc = "eraseIfNotEmptyResolved"
    /\ \E markThrows \in BOOLEAN :
           IF markThrows
           THEN /\ fs' = fs
                /\ ops' = ops \o <<"markDisk", "throw">>
                /\ pc' = "stalled"
           ELSE /\ fs' = markDisk(fs, config.backupDestination)
                /\ ops' = ops \o <<"markDisk", "resolve">>
                /\ pc' = "initDiskResolved"
    /\ DiskFrame

NextDisk ==
    \/ InitDiskValid
    \/ InitDiskForceErase
    \/ InitDiskEraseIfNotEmpty
    \/ ConfirmAnswered
    \/ ConfirmRejected
    \/ InitDiskMark

SpecDisk == InitDiskStart /\ [][NextDisk]_vars

\* the events recorded so far
Events == {ops[i] : i \in 1..Len(ops)}

\* the paths of the destination volume
VolumePaths == {p \in AllPaths : Under(p, DestinationRoot)}

\* C5: on a volume without signature file that is not empty, with force-erase off
\* and a negative confirmation, volume initialization deletes and modifies none of
\* the files that were on the volume.
C5_DeclinedEraseLeavesVolumeUntouched ==
    (/\ ~existsSync(fs0, SignaturePath)
     /\ ~isEmptySync(fs0, DestinationRoot)
     /\ ~config.forceErase
     /\ "declined" \in Events)
    => \A p \in VolumePaths : existsSync(fs0, p) => fs[p] = fs0[p]

\* C5 witness: initDisk resolved after the confirmation was declined on a volume
\* that held a file.
C5_Witness ==
    /\ pc = "initDiskResolved"
    /\ "declined" \in Events
    /\ \E p \in VolumePaths : fs0[p].type = "file"

\* C6: without signature and with force-erase set, initDisk never asks for a
\* confirmation, and when it resolves it has erased the volume, empty or not, and
\* then written the marker: the marker is the only file left.
C6_ForceEraseErasesThenMarks ==
    (~existsSync(fs0, SignaturePath) /\ config.forceErase)
    => /\ "promptForConfirm" \notin Events
       /\ pc = "initDiskResolved"
          => /\ ops = <<"eraseDisk", "markDisk", "resolve">>
             /\ fs[SignaturePath] = SignatureFile
             /\ FilesUnder(fs, DestinationRoot) = <<SignaturePath>>

\* C6 witness: initDisk resolved under force-erase on an unsigned volume that held
\* files.
C6_Witness ==
    /\ pc = "initDiskResolved"
    /\ config.forceErase
    /\ ~existsSync(fs0, SignaturePath)
    /\ \E p \in VolumePaths : fs0[p].type = "file"

\* a step that calls eraseDisk
EraseStep == \E i \in (Len(ops) + 1)..Len(ops') : ops'[i] = "eraseDisk"

\* C7: on a volume that carries the marker when the run starts, initDisk erases
\* nothing, asks for no confirmation and does not rewrite the marker; and every
\* step that erases starts in a state where the marker file does not exist.
C7_ValidVolumeIsLeftAlone ==
    /\ [](existsSync(fs0, SignaturePath)
            => /\ Events \subseteq {"resolve"}
               /\ \A p \in VolumePaths : fs[p] = fs0[p])
    /\ [][EraseStep => ~existsSync(fs, SignaturePath)]_vars

\* C7 witness: initDisk resolved on a signed volume that holds files.
C7_Witness ==
    /\ pc = "initDiskResolved"
    /\ existsSync(fs0, SignaturePath)
    /\ \E p \in VolumePaths \ {SignaturePath} : fs0[p].type = "file"

\* C20: on an unsigned volume with force-erase off, an empty volume gets no
\* confirmation request and no erase, and initDisk resolves with the marker
\* written; a confirmation is requested only on an unsigned volume that is not
\* empty with force-erase off.
C20_EmptyVolumeIsMarkedWithoutAsking ==
    /\ (/\ ~existsSync(fs0, SignaturePath)
        /\ ~config.forceErase
        /\ \A p \in VolumePaths : ~existsSync(fs0, p))
       => /\ Events \cap {"promptForConfirm", "eraseDisk"} = {}
          /\ pc = "initDiskResolved"
             => /\ ops = <<"markDisk", "resolve">>
                /\ fs = markDisk(fs0, DestinationRoot)
    /\ "promptForConfirm" \in Events
       => /\ ~existsSync(fs0, SignaturePath)
          /\ ~config.forceErase
          /\ \E p \in VolumePaths : existsSync(fs0, p)

\* C20 witness: initDisk resolved on an empty unsigned volume with force-erase off.
C20_Witness ==
    /\ pc = "initDiskResolved"
    /\ ~config.forceErase
    /\ \A p \in VolumePaths : ~existsSync(fs0, p)
    /\ fs[SignaturePath] = SignatureFile

\* C23: when eraseDisk has returned, no regular file is left under the volume
\* root at any depth and every folder that was under it is still there; nothing
\* outside the volume has changed.
C23_EraseRemovesFilesKeepsFolders ==
    /\ (pc = "eraseIfNotEmptyResolved" /\ LastOp = "eraseDisk")
       => /\ \A p \in VolumePaths :
                 /\ fs[p].type # "file"
                 /\ fs0[p].type = "folder" => fs[p] = fs0[p]
          /\ \A p \in AllPaths \ VolumePaths : fs[p] = fs0[p]
    /\ (pc = "initDiskResolved" /\ "eraseDisk" \in Events)
       => /\ \A p \in VolumePaths \ {SignaturePath} :
                 /\ fs[p].type # "file"
                 /\ fs0[p].type = "folder" => fs[p] = fs0[p]
          /\ \A p \in AllPaths \ VolumePaths : fs[p] = fs0[p]

\* C23 witness: eraseDisk returned on a volume that held a file at its root and a
\* file in a folder.
C23_Witness ==
    /\ pc = "eraseIfNotEmptyResolved"
    /\ LastOp = "eraseDisk"
    /\ fs0[DestinationRoot \o "/a.txt"].type = "file"
    /\ fs0[DestinationRoot \o "/d/c.tmp"].type = "file"
    /\ fs[DestinationRoot \o "/d"] = Folder

\* C25: whenever initDisk has resolved the marker file exists on the volume, so
\* diskIsValid holds of it and the next run takes the branch that only resolves;
\* this covers the volume that was valid, force-erase, the empty volume, the erase
\* confirmed and the erase declined.
C25_ResolvedVolumeCarriesMarker ==
    pc = "initDiskResolved"
    => /\ fs[SignaturePath].type = "file"
       /\ diskIsValid(fs, config.backupDestination)
       /\ existsSync(fs0, SignaturePath) \/ fs[SignaturePath] = SignatureFile

\* C25 witness: initDisk resolved after the erase was declined, and the volume
\* still holds its files next to the new marker.
C25_Witness ==
    /\ pc = "initDiskResolved"
    /\ "declined" \in Events
    /\ fs[SignaturePath] = SignatureFile
    /\ \E p \in VolumePaths \ {SignaturePath} : fs[p].type = "file"

-----------------------------------------------------------------------------
(* Tree scanner *)

RECURSIVE getChildren_emptyFolders(_, _, _)
\* A plausible slip: a folder without entries is taken for a file (the test is
\* children.length) and lands in the result.
getChildren_emptyFolders(f, dir, root) ==
    LET entries == readdirSync(f, dir)
        flat[i \in 0..Len(entries)] ==
            IF i = 0 THEN <<>>
            ELSE flat[i - 1] \o
                 (IF f[entries[i]].type = "folder" /\ readdirSync(f, entries[i]) # <<>>
                  THEN getChildren_emptyFolders(f, entries[i], root)
                  ELSE <<[fileInfo(entries[i], root, f[entries[i]].mtime)
                             EXCEPT !.type = f[entries[i]].type]>>)
    IN  flat[Len(entries)]

RECURSIVE getChildren(_, _, _)
\* flattenFileTree(getFileTree(dir, root)): the records of the entries under dir
\* that are no folders, each folder replaced by what it holds, in listing order
getChildren(f, dir, root) ==
    LET entries == readdirSync(f, dir)
        flat[i \in 0..Len(entries)] ==
            IF i = 0 THEN <<>>
            ELSE flat[i - 1] \o
                 (IF f[entries[i]].type = "folder"
                  THEN getChildren(f, entries[i], root)
                  ELSE <<fileInfo(entries[i], root, f[entries[i]].mtime)>>)
    IN  flat[Len(entries)]

flattenFileTree(f, root) == getChildren(f, root, root)

\* buildPendingBackupList when nothing throws: scan both trees, diff, filter.
\* src/backup.js filters by date only; part_003 filters a list that is not
\* empty by date and what is left, if not empty, by pattern
buildPendingBackupList(f, source, destination) ==
    LET pendingFilesList == getPendingFilesFromLists(flattenFileTree(f, source),
                                                     flattenFileTree(f, destination))
        byDate == IF rev = "backup.js" \/ Len(pendingFilesList) > 0
                  THEN filterListByMinDate(pendingFilesList, config.backupDate)
                  ELSE pendingFilesList
    IN  IF rev = "part_003" /\ Len(byDate) > 0
        THEN filterByRegex(byDate, config.exclude)
        ELSE byDate

-----------------------------------------------------------------------------
(* Transfer executor: performBackup, one step for each file system call *)

\* how many times SpecBackup applies performBackup to its list at most
MaxPasses == 2

\* A plausible slip: the path is built on the source root.
backupPath_source(file) == config.backupSource \o "/" \o file.relativePath

\* var backupPath = config.backupDestination + '/' + file.relativePath
backupPath(file) == config.backupDestination \o "/" \o file.relativePath

\* what a copy that failed part-way leaves at its target
PartialFile == File("<partial>", Now, Now)

\* A plausible slip: the source is moved instead of copied.
copySync_move(f, src, dest) ==
    [mkdirs(f, Dirname(dest)) EXCEPT ![dest] = File(f[src].content, Now, Now), ![src] = NoNode]

\* fs-extra copySync: the folders above dest are made, dest gets src's content
\* and the time of the copy
copySync(f, src, dest) ==
    [mkdirs(f, Dirname(dest)) EXCEPT ![dest] = File(f[src].content, Now, Now)]

\* A plausible slip: the destination is stamped with the time of the copy.
utimesSync_now(f, path, atime, mtime) ==
    [f EXCEPT ![path].atime = Now, ![path].mtime = Now]

\* fs.utimesSync
utimesSync(f, path, atime, mtime) ==
    [f EXCEPT ![path].atime = atime, ![path].mtime = mtime]

\* the variables performBackup leaves alone
TransferFrame == UNCHANGED <<rev, config, fs0, sourceList, destinationList, fileList, prevList>>

\* performBackup's entry: an empty list is logged and nothing else happens
PerformBackupStart ==
    /\ pc = "performBackup"
    /\ IF Len(fileList) < 1
       THEN /\ report' = Append(report, [msg |-> "No files to backup!"])
            /\ snapshots' = Append(snapshots, fs)
            /\ pc' = "performBackupDone"
            /\ UNCHANGED <<fileNr, overwriteCount>>
       ELSE /\ fileNr' = 1
            /\ overwriteCount' = 0
            /\ pc' = "statSync"
            /\ UNCHANGED <<report, snapshots>>
    /\ UNCHANGED <<fs, stats, ops>>
    /\ TransferFrame

\* var stats = fs.statSync(file.path)
BackupStat ==
    /\ pc = "statSync"
    /\ stats' = fs[fileList[fileNr].path]
    /\ pc' = "existsSync"
    /\ UNCHANGED <<fs, fileNr, overwriteCount, report, ops, snapshots>>
    /\ TransferFrame

\* A plausible slip: the count is raised for every entry.
overwriteCountAfter_always(exists) == overwriteCount + 1

\* overwriteCount++ inside if (fs.existsSync(backupPath))
overwriteCountAfter(exists) == IF exists THEN overwriteCount + 1 ELSE overwriteCount

\* if (fs.existsSync(backupPath)) { fs.unlinkSync(backupPath); overwriteCount++; }
\* unlinkSync may throw
BackupUnlink ==
    /\ pc = "existsSync"
    /\ LET path == backupPath(fileList[fileNr])
       IN  \E unlinkThrows \in BOOLEAN :
               IF existsSync(fs, path)
               THEN IF unlinkThrows
                    THEN /\ pc' = "performBackupThrew"
                         /\ ops' = Append(ops, "unlinkSync " \o path)
                         /\ UNCHANGED <<fs, overwriteCount>>
                    ELSE /\ fs' = [fs EXCEPT ![path] = NoNode]
                         /\ overwriteCount' = overwriteCountAfter(TRUE)
                         /\ ops' = Append(ops, "unlinkSync " \o path)
                         /\ pc' = "copySync"
               ELSE /\ ~unlinkThrows
                    /\ overwriteCount' = overwriteCountAfter(FALSE)
                    /\ pc' = "copySync"
                    /\ UNCHANGED <<fs, ops>>
    /\ UNCHANGED <<fileNr, stats, report, snapshots>>
    /\ TransferFrame

\* fs.copySync(file.path, backupPath); a throw leaves nothing or a partial file
BackupCopy ==
    /\ pc = "copySync"
    /\ LET file == fileList[fileNr]
       IN  /\ ops' = Append(ops, "copySync " \o backupPath(file))
           /\ \E outcome \in {"copied", "nothing", "partial"} :
                  /\ fs' = CASE outcome = "copied" -> copySync(fs, file.path, backupPath(file))
                             [] outcome = "nothing" -> fs
                             [] OTHER -> [mkdirs(fs, Dirname(backupPath(file)))
                                             EXCEPT ![backupPath(file)] = PartialFile]
                  /\ pc' = IF outcome = "copied" THEN "utimesSync" ELSE "performBackupThrew"
    /\ UNCHANGED <<fileNr, stats, overwriteCount, report, snapshots>>
    /\ TransferFrame

\* fs.utimesSync(backupPath, stats.atime, stats.mtime), then the next entry or,
\* after the last, the summary
BackupUtimes ==
    /\ pc = "utimesSync"
    /\ LET path == backupPath(fileList[fileNr])
       IN  /\ fs' = utimesSync(fs, path, stats.atime, stats.mtime)
           /\ ops' = Append(ops, "utimesSync " \o path)
    /\ IF fileNr < Len(fileList)
       THEN /\ fileNr' = fileNr + 1
            /\ pc' = "statSync"
            /\ UNCHANGED <<report, snapshots>>
       ELSE /\ report' = Append(report, [msg |-> "Backed up", total |-> Len(fileList),
                                         updated |-> overwriteCount])
            /\ snapshots' = Append(snapshots, fs')
            /\ pc' = "performBackupDone"
            /\ UNCHANGED fileNr
    /\ UNCHANGED <<stats, overwriteCount>>
    /\ TransferFrame

\* the same list is applied once more
PerformBackupAgain ==
    /\ pc = "performBackupDone"
    /\ Len(snapshots) < MaxPasses
    /\ pc' = "performBackup"
    /\ UNCHANGED <<fs, fileNr, stats, overwriteCount, report, ops, snapshots>>
    /\ TransferFrame

\* versions of a source file and of a destination file in the trees drawn below
SourceVersions == {File("new", t, 2500) : t \in MTimes}

DestinationVersions == {File("old", t, t) : t \in MTimes}

InitBackup ==
    /\ rev \in Revs
    /\ \E backupDate \in {Undefined, "1970-01-01T00:00:01.000Z"}, exclude \in {Undefined, "\\.tmp$"} :
           config = Config(backupDate, exclude, FALSE, FALSE)
    /\ \E srcNodes \in NodeChoices(SourceVersions), dstNodes \in NodeChoices(DestinationVersions) :
           fs = FsOf(srcNodes, FALSE, dstNodes, FALSE, OldSignature)
    /\ fs0 = fs
    /\ sourceList = flattenFileTree(fs, config.backupSource)
    /\ destinationList = flattenFileTree(fs, config.backupDestination)
    /\ fileList = buildPendingBackupList(fs, config.backupSource, config.backupDestination)
    /\ prevList = <<>>
    /\ pc = "performBackup"
    /\ ops = <<>>
    /\ TransferIdle

NextBackup ==
    \/ PerformBackupStart
    \/ BackupStat
    \/ BackupUnlink
    \/ BackupCopy
    \/ BackupUtimes
    \/ PerformBackupAgain

SpecBackup == InitBackup /\ [][NextBackup]_vars

\* the file system when the application of performBackup numbered k started
PassStart(k) == IF k = 1 THEN fs0 ELSE snapshots[k - 1]

\* the calls one application makes on a list, from the file system it starts on:
\* for each entry in list order unlinkSync if the target exists, copySync, utimesSync
RECURSIVE CallsFor(_, _)
CallsFor(list, startFs) ==
    IF list = <<>> THEN <<>>
    ELSE LET path == backupPath(Head(list))
         IN  (IF existsSync(startFs, path) THEN <<"unlinkSync " \o path>> ELSE <<>>)
             \o <<"copySync " \o path, "utimesSync " \o path>>
             \o CallsFor(Tail(list), startFs)

\* the calls of the first k applications
RECURSIVE CallsOfPasses(_)
CallsOfPasses(k) ==
    IF k = 0 THEN <<>> ELSE CallsOfPasses(k - 1) \o CallsFor(fileList, PassStart(k))

\* C8: when performBackup has completed, every pending entry's destination file
\* backupDestination/relativePath has the source file's content and the source
\* file's access and modification times, and the calls made were, entry by entry
\* in list order, delete-if-exists, copy, set timestamps.
C8_BackupCopiesContentAndTimes ==
    pc = "performBackupDone" =>
        /\ \A i \in 1..Len(fileList) :
               /\ fs[backupPath(fileList[i])].type = "file"
               /\ fs[backupPath(fileList[i])].content = fs[fileList[i].path].content
               /\ fs[backupPath(fileList[i])].mtime = fs[fileList[i].path].mtime
               /\ fs[backupPath(fileList[i])].atime = fs[fileList[i].path].atime
        /\ ops = CallsOfPasses(Len(snapshots))

\* C8 witness: performBackup completed on a list of two or more entries, one of
\* them newer than a destination copy that carried another modification time.
C8_Witness ==
    /\ pc = "performBackupDone"
    /\ Len(fileList) >= 2
    /\ \E i \in 1..Len(fileList) :
           /\ fileList[i].reason = backupReasons.SRC_FILE_NEWER
           /\ fs0[backupPath(fileList[i])].mtime < fs[backupPath(fileList[i])].mtime

\* C9: performBackup reports a total equal to the length of the pending list and
\* an overwrite count equal to the number of entries whose destination path
\* existed when the entry was processed; on an empty list it makes no file system
\* call, reports no counts and does not throw.
C9_BackupReportsCounts ==
    /\ fileList = <<>> => pc # "performBackupThrew" /\ ops = <<>> /\ fs = fs0
    /\ pc = "performBackupDone" =>
           LET summary == report[Len(report)]
               start == PassStart(Len(snapshots))
           IN  IF fileList = <<>>
               THEN summary = [msg |-> "No files to backup!"]
               ELSE /\ summary.msg = "Backed up"
                    /\ summary.total = Len(fileList)
                    /\ summary.updated =
                           Cardinality({i \in 1..Len(fileList) :
                                           existsSync(start, backupPath(fileList[i]))})

\* C9 witness: performBackup completed on a list where some entries overwrote a
\* destination file and some did not.
C9_Witness ==
    /\ pc = "performBackupDone"
    /\ Len(snapshots) = 1
    /\ report[1].msg = "Backed up"
    /\ report[1].updated > 0
    /\ report[1].updated < report[1].total

\* C10: applying the same pending list again leaves the file system as the first
\* application left it; only the overwrite count differs, every entry now being
\* an overwrite.
C10_BackupIsIdempotent ==
    pc = "performBackupDone" =>
        \A k \in 2..Len(snapshots) :
            /\ snapshots[k] = snapshots[1]
            /\ fileList # <<>> =>
                   /\ report[k].total = report[1].total
                   /\ report[k].updated = Len(fileList)
            /\ fileList = <<>> => report[k] = report[1]

\* C10 witness: a second application completed on a list whose first application
\* created at least one file.
C10_Witness ==
    /\ pc = "performBackupDone"
    /\ Len(snapshots) = 2
    /\ fileList # <<>>
    /\ report[1].updated < report[2].updated

-----------------------------------------------------------------------------
(* Specification SpecRun: the main script, from initDisk to the end of its   *)
(* promise chain.  The volume is initialized by the actions of SpecDisk and  *)
(* the transfer is made by those of SpecBackup.                              *)

\* the variables the list-building steps of the main script leave alone
RunFrame == UNCHANGED <<rev, config, fs, fs0, fileNr, stats, overwriteCount, report, snapshots>>

\* A plausible slip: the scan does not wait for initDisk's promise.
RunScanSource_notWaiting ==
    /\ pc \in {"initDisk", "initDiskResolved"}
    /\ "getFileTree source" \notin {ops[i] : i \in 1..Len(ops)}
    /\ sourceList' = flattenFileTree(fs, config.backupSource)
    /\ ops' = Append(ops, "getFileTree source")
    /\ pc' = IF pc = "initDisk" THEN pc ELSE "scanDestination"
    /\ UNCHANGED <<destinationList, fileList, prevList>>
    /\ RunFrame

\* buildPendingBackupList: getFileTree(source, config.backupSource) and
\* flattenFileTree; readdirSync or statSync may throw
RunScanSource ==
    /\ pc = "initDiskResolved"
    /\ \E throws \in BOOLEAN :
           IF throws
           THEN /\ ops' = ops \o <<"getFileTree source", "throw">>
                /\ pc' = "threw"
                /\ UNCHANGED sourceList
           ELSE /\ sourceList' = flattenFileTree(fs, config.backupSource)
                /\ ops' = Append(ops, "getFileTree source")
                /\ pc' = "scanDestination"
    /\ UNCHANGED <<destinationList, fileList, prevList>>
    /\ RunFrame

\* A plausible slip: the destination is listed as it was before initDisk.
RunScanDestination_beforeInit ==
    /\ pc = "scanDestination"
    /\ destinationList' = flattenFileTree(fs0, config.backupDestination)
    /\ ops' = Append(ops, "getFileTree destination")
    /\ pc' = "diff"
    /\ UNCHANGED <<sourceList, fileList, prevList>>
    /\ RunFrame

\* buildPendingBackupList: getFileTree(destination, config.backupDestination) and
\* flattenFileTree
RunScanDestination ==
    /\ pc = "scanDestination"
    /\ \E throws \in BOOLEAN :
           IF throws
           THEN /\ ops' = ops \o <<"getFileTree destination", "throw">>
                /\ pc' = "threw"
                /\ UNCHANGED destinationList
           ELSE /\ destinationList' = flattenFileTree(fs, config.backupDestination)
                /\ ops' = Append(ops, "getFileTree destination")
                /\ pc' = "diff"
    /\ UNCHANGED <<sourceList, fileList, prevList>>
    /\ RunFrame

\* buildPendingBackupList: the date filter.  src/backup.js applies it to every
\* list and returns; part_003 applies it to a list that is not empty and goes on
\* to the pattern filter
RunFilterListByMinDate ==
    /\ pc = "diffed"
    /\ IF rev = "backup.js" \/ Len(fileList) > 0
       THEN /\ fileList' = filterListByMinDate(fileList, config.backupDate)
            /\ prevList' = fileList
            /\ ops' = Append(ops, "filterListByMinDate")
       ELSE UNCHANGED <<fileList, prevList, ops>>
    /\ pc' = IF rev = "backup.js" THEN "listBuilt" ELSE "dateFiltered"
    /\ UNCHANGED <<sourceList, destinationList>>
    /\ RunFrame

\* buildPendingBackupList of part_003: the pattern filter, applied to a list that
\* is not empty; new RegExp throws on a pattern that does not compile
RunFilterByRegex ==
    /\ pc = "dateFiltered"
    /\ IF Len(fileList) > 0
       THEN IF RegExp(config.exclude).ok
            THEN /\ fileList' = filterByRegex(fileList, config.exclude)
                 /\ prevList' = fileList
                 /\ ops' = Append(ops, "filterByRegex")
                 /\ pc' = "listBuilt"
            ELSE /\ ops' = ops \o <<"filterByRegex", "throw">>
                 /\ pc' = "threw"
                 /\ UNCHANGED <<fileList, prevList>>
       ELSE /\ pc' = "listBuilt"
            /\ UNCHANGED <<fileList, prevList, ops>>
    /\ UNCHANGED <<sourceList, destinationList>>
    /\ RunFrame

\* A plausible slip: the test of config.testMode is lost and the list is applied.
RunDispatch_alwaysBackup ==
    /\ pc = "listBuilt"
    /\ ops' = Append(ops, "performBackup")
    /\ pc' = "performBackup"
    /\ UNCHANGED <<sourceList, destinationList, fileList, prevList>>
    /\ RunFrame

\* the main script after buildPendingBackupList: printTestModeBackupList in test
\* mode, performBackup otherwise
RunDispatch ==
    /\ pc = "listBuilt"
    /\ IF config.testMode
       THEN /\ ops' = Append(ops, "printTestModeBackupList")
            /\ pc' = "previewDone"
       ELSE /\ ops' = Append(ops, "performBackup")
            /\ pc' = "performBackup"
    /\ UNCHANGED <<sourceList, destinationList, fileList, prevList>>
    /\ RunFrame

\* part_003: the then-callback that mails the log summary when
\* config.sendMailSummary asks for it; sendMail may fail, which rejects
RunMailSummary ==
    /\ rev = "part_003"
    /\ pc \in {"previewDone", "performBackupDone"}
    /\ \E outcome \in {"off", "sent", "rejected"} :
           /\ ops' = CASE outcome = "off" -> ops
                       [] outcome = "sent" -> Append(ops, "mailLogSummary")
                       [] OTHER -> ops \o <<"mailLogSummary", "throw">>
           /\ pc' = IF outcome = "rejected" THEN "threw" ELSE "mailed"
    /\ UNCHANGED <<sourceList, destinationList, fileList, prevList>>
    /\ RunFrame

\* showGoodbye when the chain was fulfilled: finally of src/backup.js, the last
\* then-callback of part_003
RunGoodbye ==
    /\ \/ rev = "backup.js" /\ pc \in {"previewDone", "performBackupDone"}
       \/ rev = "part_003" /\ pc = "mailed"
    /\ ops' = Append(ops, "showGoodbye")
    /\ pc' = "done"
    /\ UNCHANGED <<sourceList, destinationList, fileList, prevList>>
    /\ RunFrame

\* the catch of the main script, reached by a rejection of initDisk or a throw of
\* a then-callback; in src/backup.js finally says goodbye before it
RunCatch ==
    /\ pc \in {"initDiskRejected", "threw", "performBackupThrew"}
    /\ ops' = ops \o (IF rev = "backup.js" THEN <<"showGoodbye">> ELSE <<>>) \o <<"logger.error">>
    /\ pc' = "errorLogged"
    /\ UNCHANGED <<sourceList, destinationList, fileList, prevList>>
    /\ RunFrame

\* versions of a source file and of a destination file in the trees of a run
RunSourceVersions == {File("new", 2000, 2500)}

RunDestinationVersions == {File("old", 1000, 1000)}

InitRun ==
    /\ rev \in Revs
    /\ \E backupDate \in {Undefined, "1970-01-01T00:00:01.000Z"},
          exclude \in {Undefined, "\\.tmp$", "("}, testMode \in BOOLEAN, forceErase \in BOOLEAN :
           config = Config(backupDate, exclude, testMode, forceErase)
    /\ \E srcNodes \in NodeChoices(RunSourceVersions), dstNodes \in NodeChoices(RunDestinationVersions),
          sig \in {NoNode, OldSignature} :
           fs = FsOf(srcNodes, FALSE, dstNodes, FALSE, sig)
    /\ fs0 = fs
    /\ sourceList = <<>>
    /\ destinationList = <<>>
    /\ fileList = <<>>
    /\ prevList = <<>>
    /\ pc = "initDisk"
    /\ ops = <<>>
    /\ TransferIdle

NextRun ==
    \/ InitDiskValid
    \/ InitDiskForceErase
    \/ InitDiskEraseIfNotEmpty
    \/ ConfirmAnswered
    \/ ConfirmRejected
    \/ InitDiskMark
    \/ RunScanSource
    \/ RunScanDestination
    \/ ComputePending
    \/ RunFilterListByMinDate
    \/ RunFilterByRegex
    \/ RunDispatch
    \/ PerformBackupStart
    \/ BackupStat
    \/ BackupUnlink
    \/ BackupCopy
    \/ BackupUtimes
    \/ RunMailSummary
    \/ RunGoodbye
    \/ RunCatch

SpecRun == InitRun /\ [][NextRun]_vars

\* the run under the scheduling of the event loop: a callback that can run does
SpecRunFair == SpecRun /\ WF_vars(NextRun)

\* the positions of the pipeline: while initDisk runs, and while performBackup does
InitPositions == {"initDisk", "promptForConfirm", "eraseIfNotEmptyResolved"}

TransferPositions == {"performBackup", "statSync", "existsSync", "copySync", "utimesSync",
                      "performBackupDone", "performBackupThrew"}

LifecycleEvents == {"promptForConfirm", "confirmed", "declined", "promptRejected",
                    "eraseDisk", "markDisk", "resolve"}

ScanEvents == {"getFileTree source", "getFileTree destination"}

DiffEvents == {"getPendingFilesFromLists"}

FilterEvents == {"filterListByMinDate", "filterByRegex"}

ApplyEvents == {"printTestModeBackupList", "performBackup"}

\* every event of A so far comes before every event of B so far
Before(A, B) == \A i, j \in 1..Len(ops) : (ops[i] \in A /\ ops[j] \in B) => i < j

\* C15: initDisk has resolved before a tree is scanned, both scans precede the
\* diff, the diff precedes the filters and the filters precede the preview or the
\* transfer; and the destination list the diff uses is the listing of the volume
\* as initDisk left it.
C15_PipelineOrder ==
    /\ Before(LifecycleEvents, ScanEvents \cup DiffEvents \cup FilterEvents \cup ApplyEvents)
    /\ Before(ScanEvents, DiffEvents \cup FilterEvents \cup ApplyEvents)
    /\ Before(DiffEvents, FilterEvents \cup ApplyEvents)
    /\ Before(FilterEvents, ApplyEvents)
    /\ Events \cap ScanEvents # {} => "resolve" \in Events
    /\ Events \cap DiffEvents # {} => ScanEvents \subseteq Events
    /\ Events \cap ApplyEvents # {} => DiffEvents \subseteq Events
    /\ (Events \cap ApplyEvents # {} /\ fileList # <<>>) => "filterListByMinDate" \in Events
    /\ pc \in {"diff", "diffed", "dateFiltered", "listBuilt", "previewDone"}
       => destinationList = flattenFileTree(fs, config.backupDestination)
    /\ ("getPendingFilesFromLists" \in Events /\ "eraseDisk" \in Events)
       => RelPathsOf(destinationList) = {DISK_SIGNATURE_FILE}

\* C15 witness: the diff ran after initDisk erased a volume that held files, on a
\* source that holds files.
C15_Witness ==
    /\ pc = "diffed"
    /\ "eraseDisk" \in Events
    /\ \E p \in VolumePaths : fs0[p].type = "file"
    /\ sourceList # <<>>

\* e is a call of performBackup or one of its file system calls
IsTransferEvent(e) ==
    \/ e = "performBackup"
    \/ Len(e) > 11 /\ SubSeq(e, 1, 11) = "unlinkSync "
    \/ Len(e) > 9 /\ SubSeq(e, 1, 9) = "copySync "
    \/ Len(e) > 11 /\ SubSeq(e, 1, 11) = "utimesSync "

\* the stage an event belongs to, 0 for an event of no stage
StageOf(e) ==
    CASE e \in LifecycleEvents -> 1
      [] e \in ScanEvents      -> 2
      [] e \in DiffEvents      -> 3
      [] e \in FilterEvents    -> 4
      [] IsTransferEvent(e)    -> 5
      [] OTHER                 -> 0

\* C16, as stated: scanning, diffing and filtering come first, the volume
\* lifecycle resolution (confirmation, erase, marker) comes after the filters and
\* the transfer comes last.
C16_LifecycleAfterFilters ==
    /\ Before(ScanEvents \cup DiffEvents \cup FilterEvents, LifecycleEvents)
    /\ \A i, j \in 1..Len(ops) : (ops[i] \in LifecycleEvents /\ IsTransferEvent(ops[j])) => i < j

\* C16, amended: volume lifecycle resolution, scanning, diffing, filtering and
\* transfer happen strictly in that order, without overlap: the stages of the
\* events of a run never decrease.
C16_StagesInCodeOrder ==
    \A i, j \in 1..Len(ops) :
        (i < j /\ StageOf(ops[i]) # 0 /\ StageOf(ops[j]) # 0) => StageOf(ops[i]) <= StageOf(ops[j])

\* C16 witness: a run went through all five stages, an erase, the pattern filter
\* and a copy included.
C16_Witness ==
    /\ pc = "done"
    /\ {StageOf(ops[i]) : i \in 1..Len(ops)} = 0..5
    /\ "eraseDisk" \in Events
    /\ "filterByRegex" \in Events
    /\ \E i \in 1..Len(ops) : Len(ops[i]) > 11 /\ SubSeq(ops[i], 1, 11) = "utimesSync "

\* C17: whenever eraseDisk or markDisk threw during initDisk, the rejection is on
\* its way to the catch of the main script or was logged there, and the run made
\* no scan, preview or transfer.
C17_InitFailuresAreSurfaced ==
    \A i \in 2..Len(ops) :
        (ops[i] = "throw" /\ ops[i - 1] \in {"eraseDisk", "markDisk"})
        => /\ pc \in {"initDiskRejected", "errorLogged"}
           /\ Events \cap (ScanEvents \cup ApplyEvents) = {}

\* C18: every run reaches the goodbye of a completed pipeline or the catch of the
\* main script.
C18_RunCompletesOrAborts == <>(pc \in {"done", "errorLogged"})

\* C19: a run of part_003 whose config.exclude does not compile never gets to the
\* preview or the transfer, whatever the pending list, and ends in the catch.
C19_UncompilablePatternIsSurfaced ==
    (rev = "part_003" /\ ~RegExp(config.exclude).ok)
    => /\ Events \cap ApplyEvents = {}
       /\ pc \notin {"listBuilt", "previewDone", "mailed", "done"} \cup TransferPositions

-----------------------------------------------------------------------------
(* Specification SpecPipeline: the diff and the filters of                   *)
(* buildPendingBackupList on drawn scan results                              *)

InitPipeline ==
    /\ rev \in Revs
    /\ \E backupDate \in {Undefined, "1970-01-01T00:00:01.500Z", "1970-01-01T00:00:02.000Z"},
          exclude \in {"\\.tmp$", "d", "("} :
           config = Config(backupDate, exclude, FALSE, FALSE)
    /\ fs = EmptyFs
    /\ fs0 = fs
    /\ sourceList \in ScanLists(SourceRoot, MaxFiles)
    /\ destinationList \in DestinationLists
    /\ fileList = <<>>
    /\ prevList = <<>>
    /\ pc = "diff"
    /\ ops = <<>>
    /\ TransferIdle

NextPipeline ==
    \/ ComputePending
    \/ RunFilterListByMinDate
    \/ RunFilterByRegex

SpecPipeline == InitPipeline /\ [][NextPipeline]_vars

\* a is b with entries left out
RECURSIVE IsSubseq(_, _)
IsSubseq(a, b) ==
    IF a = <<>> THEN TRUE
    ELSE IF b = <<>> THEN FALSE
    ELSE IF Head(a) = Head(b) THEN IsSubseq(Tail(a), Tail(b))
    ELSE IsSubseq(a, Tail(b))

\* the entries of a list as the scan built them
WithoutReason(list) == [i \in 1..Len(list) |-> [list[i] EXCEPT !.reason = NoReason]]

\* C21: the list getPendingFilesFromLists returns holds source entries only, each
\* at most once, in the order of the source list, and each filter returns its
\* argument with entries left out.
C21_PendingIsSubsequenceOfSource ==
    pc # "diff" =>
        /\ IsSubseq(WithoutReason(fileList), sourceList)
        /\ IsSubseq(WithoutReason(fileList), WithoutReason(prevList))
        /\ \A i, j \in 1..Len(fileList) :
               i # j => fileList[i].relativePath # fileList[j].relativePath

\* C21 witness: the filters ran on a pending list of two entries that the source
\* list holds in an order other than the listing order, and kept both.
C21_Witness ==
    /\ pc = "listBuilt"
    /\ Len(fileList) = 2
    /\ fileList[1].relativePath = "d/a.txt"
    /\ fileList[2].relativePath = "a.txt"
    /\ "filterListByMinDate" \in Events

\* a time truncated to the whole second
Seconds(ms) == ms \div 1000

\* C30: the diff selects a source entry that has a destination copy exactly when
\* its modification time lies in a later second than the copy's, and the date
\* filter with a threshold keeps exactly the entries whose modification time,
\* cut to the whole second, is at or after the threshold: times within one second
\* compare as equal.
C30_TimesCompareByWholeSeconds ==
    /\ pc = "diffed" =>
           \A i \in 1..Len(sourceList) :
               sourceList[i].relativePath \in RelPathsOf(destinationList)
               => LET s == sourceList[i]
                      d == EntryOf(destinationList, s.relativePath)
                  IN  s.relativePath \in RelPathsOf(fileList)
                      <=> Seconds(s.lastModified) > Seconds(d.lastModified)
    /\ (LastOp = "filterListByMinDate" /\ config.backupDate \in DOMAIN DateStrings)
       => fileList = SelectSeq(prevList,
                               LAMBDA file : Seconds(file.lastModified) * 1000
                                                >= DateStrings[config.backupDate])

\* C30 witness: the diff left out a source file modified half a second after its
\* destination copy.
C30_Witness ==
    /\ pc = "diffed"
    /\ \E i \in 1..Len(sourceList) :
           /\ sourceList[i].lastModified = 1500
           /\ sourceList[i].relativePath \in RelPathsOf(destinationList)
           /\ EntryOf(destinationList, sourceList[i].relativePath).lastModified = 1000
           /\ sourceList[i].relativePath \notin RelPathsOf(fileList)

-----------------------------------------------------------------------------
(* Specification SpecScan: the two scans of buildPendingBackupList on drawn  *)
(* trees, folders without entries included                                   *)

InitScan ==
    /\ rev \in Revs
    /\ config = DefaultConfig
    /\ \E srcNodes \in NodeChoices(SourceVersions), srcD \in BOOLEAN,
          dstNodes \in NodeChoices(RunDestinationVersions), dstD \in BOOLEAN,
          sig \in {NoNode, OldSignature} :
           fs = FsOf(srcNodes, srcD, dstNodes, dstD, sig)
    /\ fs0 = fs
    /\ sourceList = <<>>
    /\ destinationList = <<>>
    /\ fileList = <<>>
    /\ prevList = <<>>
    /\ pc = "initDiskResolved"
    /\ ops = <<>>
    /\ TransferIdle

NextScan ==
    \/ RunScanSource
    \/ RunScanDestination

SpecScan == InitScan /\ [][NextScan]_vars

\* list holds one record for each path under root that is no folder, and nothing
\* else; each record describes its path
ScanIsExact(list, root) ==
    LET present == {p \in AllPaths : Under(p, root) /\ fs[p].type = "file"}
    IN  /\ {list[i].path : i \in 1..Len(list)} = present
        /\ Len(list) = Cardinality(present)
        /\ \A i \in 1..Len(list) :
               /\ root \o "/" \o list[i].relativePath = list[i].path
               /\ list[i].type = "file"
               /\ list[i].lastModified = fs[list[i].path].mtime
        /\ \A i, j \in 1..Len(list) : i # j => list[i].relativePath # list[j].relativePath

\* C22: the flattened scan of a tree holds exactly the entries under the root
\* that are no folders, each once, with relativePath the path relative to the
\* root; no folder is in it, with or without entries.
C22_ScanListsExactlyTheFiles ==
    /\ pc \in {"scanDestination", "diff"} => ScanIsExact(sourceList, SourceRoot)
    /\ pc = "diff" => ScanIsExact(destinationList, DestinationRoot)

\* C22 witness: both trees were scanned; the source holds a file at its root and
\* one in a folder, the destination a file and a folder without entries.
C22_Witness ==
    /\ pc = "diff"
    /\ Len(sourceList) >= 2
    /\ "d/a.txt" \in RelPathsOf(sourceList)
    /\ fs[DestinationRoot \o "/d"] = Folder
    /\ readdirSync(fs, DestinationRoot \o "/d") = <<>>
    /\ destinationList # <<>>

-----------------------------------------------------------------------------
(* Failures and frames of the transfer *)

\* the destination path of a pending entry
TargetOf(file) == DestinationRoot \o "/" \o file.relativePath

\* C24: when the first application of performBackup has thrown at an entry, the
\* entries before it have their copies, the entries after it have the
\* destination files they had, and the pending list built anew from the file
\* system holds that entry and every entry after it.
C24_AbortKeepsAppliedAndRedetectsRest ==
    (pc = "performBackupThrew" /\ snapshots = <<>>)
    => /\ \A i \in 1..(fileNr - 1) :
              /\ fs[TargetOf(fileList[i])].content = fs[fileList[i].path].content
              /\ fs[TargetOf(fileList[i])].mtime = fs[fileList[i].path].mtime
       /\ \A i \in (fileNr + 1)..Len(fileList) : fs[TargetOf(fileList[i])] = fs0[TargetOf(fileList[i])]
       /\ \A i \in fileNr..Len(fileList) :
              fileList[i].relativePath
                  \in RelPathsOf(buildPendingBackupList(fs, config.backupSource,
                                                        config.backupDestination))

\* C26: when a run in test mode has said goodbye, every file the volume held
\* when the run started is in place as it was.
C26_TestModeLeavesVolumeFiles ==
    (config.testMode /\ pc = "done")
    => \A p \in VolumePaths : fs0[p].type = "file" => fs[p] = fs0[p]

\* C27: when copySync has thrown in the first application of performBackup, the
\* destination path of the entry still holds the file it held when the run
\* started, if it held one.
C27_FailedCopyKeepsOldCopy ==
    (/\ pc = "performBackupThrew"
     /\ snapshots = <<>>
     /\ LastOp = "copySync " \o TargetOf(fileList[fileNr])
     /\ fs0[TargetOf(fileList[fileNr])].type = "file")
    => fs[TargetOf(fileList[fileNr])] = fs0[TargetOf(fileList[fileNr])]

TransferStepKeepsOtherFiles ==
    pc \in TransferPositions
    => \A p \in AllPaths \ {TargetOf(fileList[i]) : i \in 1..Len(fileList)} :
           fs[p].type = "file" => (fs'[p] = fs[p])

\* C29: on a volume that was valid when the run started, every file other than
\* the destination paths of the pending entries under transfer is as it was, the
\* marker and the files the source does not hold included; and no step of
\* performBackup changes a file at any other path.
C29_TransferTouchesPendingTargetsOnly ==
    /\ [](existsSync(fs0, SignaturePath)
            => LET targets == IF "performBackup" \in Events
                              THEN {TargetOf(fileList[i]) : i \in 1..Len(fileList)}
                              ELSE {}
               IN  \A p \in AllPaths \ targets : fs0[p].type = "file" => fs[p] = fs0[p])
    /\ [][TransferStepKeepsOtherFiles]_vars

\* C29 witness: a run said goodbye after overwriting a file on a valid volume
\* that holds a file the source does not.
C29_Witness ==
    /\ pc = "done"
    /\ existsSync(fs0, SignaturePath)
    /\ \E i \in 1..Len(ops) : Len(ops[i]) > 11 /\ SubSeq(ops[i], 1, 11) = "unlinkSync "
    /\ \E p \in VolumePaths \ {SignaturePath} :
           /\ fs0[p].type = "file"
           /\ p \notin {TargetOf(fileList[i]) : i \in 1..Len(fileList)}
           /\ ~existsSync(fs0, SourceRoot \o SubSeq(p, Len(DestinationRoot) + 1, Len(p)))

=============================================================================
